---- MODULE Spec2Model ----
(***************************************************************************)
(* Bronze-layer ingestion pipeline (scripts/bronze/ingest_to_bronze.py,    *)
(* with the discovery of scripts/bronze/modded_bronzeval.py) as a state    *)
(* machine.  File and department names are sequences of one-character      *)
(* strings, so that the naming and extension functions are computed the    *)
(* way the code computes them.                                             *)
(***************************************************************************)
EXTENDS Integers, Sequences, FiniteSets, TLC

(* ------------------------------ bounds -------------------------------- *)
\* Most entries, all department directories together, below the departments.
MaxEntries == 2
\* Most rows of an extracted table.
MaxRows == 1
\* Largest max_retries argument tried on a direct call of load_dataset.
MaxRetriesArg == 4
\* Most calls of ingestion in one process.
MaxRuns == 2
\* Most entries below the departments when ingestion is called repeatedly.
MaxRunEntries == 1

(* ------------------------- program constants -------------------------- *)
\* raw_loading_zone calls load_dataset(file_path, max_retries=3).
PipelineMaxRetries == 3
\* first_validation rejects a file of fewer than 10 bytes.
MinFileSize == 10

(* ------------------------------ strings ------------------------------- *)
Upper == <<"A","B","C","D","E","F","G","H","I","J","K","L","M",
           "N","O","P","Q","R","S","T","U","V","W","X","Y","Z">>
LowerCase == <<"a","b","c","d","e","f","g","h","i","j","k","l","m",
               "n","o","p","q","r","s","t","u","v","w","x","y","z">>

\* str.lower() on one character.
LowerChar(c) ==
    IF \E i \in 1..26 : Upper[i] = c
    THEN LowerCase[CHOOSE i \in 1..26 : Upper[i] = c]
    ELSE c

\* str.lower().
Lower(s) == [i \in 1..Len(s) |-> LowerChar(s[i])]

\* Index of the last "." of s, 0 when there is none.
LastDot(s) ==
    IF \E i \in 1..Len(s) : s[i] = "."
    THEN CHOOSE i \in 1..Len(s) : s[i] = "." /\ \A j \in (i+1)..Len(s) : s[j] # "."
    ELSE 0

\* s.split(".")[-1].lower(): the text after the last dot (all of s without a dot).
ExtOf(s) == Lower(SubSeq(s, LastDot(s) + 1, Len(s)))

\* s.rsplit(".", 1)[0]: the text before the last dot (all of s without a dot).
BaseOf(s) == IF LastDot(s) = 0 THEN s ELSE SubSeq(s, 1, LastDot(s) - 1)

\* The characters of the class [\s\-\.] that occur in the modelled names.
IsSeparator(c) == c \in {" ", "-", "."}

RECURSIVE DropSeparators(_)
DropSeparators(s) ==
    IF s # <<>> /\ IsSeparator(Head(s)) THEN DropSeparators(Tail(s)) ELSE s

\* re.sub(r'[\s\-\.]+', '_', s): every maximal run of separators becomes one "_".
RECURSIVE CollapseSeparators(_)
CollapseSeparators(s) ==
    IF s = <<>> THEN <<>>
    ELSE IF IsSeparator(Head(s))
         THEN <<"_">> \o CollapseSeparators(DropSeparators(Tail(s)))
         ELSE <<Head(s)>> \o CollapseSeparators(Tail(s))

\* str.replace(" ", "_").
ReplaceSpaces(s) == [i \in 1..Len(s) |-> IF s[i] = " " THEN "_" ELSE s[i]]

ParquetSuffix == <<".","p","a","r","q","u","e","t">>

\* standardize_filename(file_name, department).
standardize_filename(file_name, department) ==
    LET base == Lower(CollapseSeparators(BaseOf(file_name)))
        dept == Lower(ReplaceSpaces(department))
    IN  dept \o <<"_">> \o base \o ParquetSuffix

\* The extensions load_dataset dispatches on.
SupportedExts ==
    { <<"c","s","v">>, <<"p","a","r","q","u","e","t">>, <<"p","i","c","k","l","e">>,
      <<"p","k","l">>, <<"x","l","s","x">>, <<"x","l","s">>, <<"j","s","o","n">>,
      <<"h","t","m","l">> }

Csv == <<"c","s","v">>

(* --------------------------- the input space -------------------------- *)
\* Names of the entries of the source root.
Departments == { <<"h","r">>, <<"H"," ","R">> }

\* Names of the entries of a department directory.
FileNames ==
    { <<"a",".","c","s","v">>, <<"a",".","j","s","o","n">>,
      <<"A"," ","-","b",".","C","S","V">>, <<"a",".","t","x","t">> }

\* Column names a source may carry; "batch_id" is also an audit column's name.
ColumnLists == { <<>>, <<"x">>, <<"x", "batch_id">> }

\* A table is None or a frame: its row count and its columns, each a name and
\* the origin of its values ("src" for the values decoded from the source).
None == [isnone |-> TRUE, rows |-> 0, cols |-> <<>>]

Frame(rows, names) ==
    [isnone |-> FALSE, rows |-> rows,
     cols |-> [i \in 1..Len(names) |-> [name |-> names[i], val |-> "src"]]]

Frames == { Frame(r, c) : r \in 0..MaxRows, c \in ColumnLists }

\* What a successful decode of a file of extension ext can return: the
\* delimited-text parser raises on input without columns, the others may
\* return a frame without columns.
DecodeResults(ext) ==
    IF ext = Csv THEN { t \in Frames : Len(t.cols) >= 1 } ELSE Frames

\* What os.path.exists and os.path.getsize can report for a path at the
\* moment of validation.
FileStats ==
    { [exists |-> FALSE, size |-> 0] } \cup
    [exists : {TRUE}, size : {MinFileSize - 1, MinFileSize}]

FileEntries == [name : FileNames, isfile : BOOLEAN]

DistinctNames(s) == \A i, j \in 1..Len(s) : i # j => s[i].name # s[j].name

FileLists ==
    UNION { { s \in [1..n -> FileEntries] : DistinctNames(s) } : n \in 0..MaxEntries }

DepartmentLists ==
    UNION { { s \in [1..n -> Departments] : \A i, j \in 1..n : i # j => s[i] # s[j] }
            : n \in 0..Cardinality(Departments) }

RECURSIVE SumLen(_)
SumLen(s) == IF s = <<>> THEN 0 ELSE Len(Head(s).files) + SumLen(Tail(s))

\* The directory trees below an existing source root, in os.listdir order.
Trees ==
    UNION { { [i \in 1..Len(ds) |->
                  [name |-> ds[i], isdir |-> t[i].isdir, files |-> t[i].files]]
              : t \in { u \in [1..Len(ds) -> [isdir : BOOLEAN, files : FileLists]] :
                          /\ \A i \in 1..Len(ds) : ~u[i].isdir => u[i].files = <<>>
                          /\ SumLen(u) <= MaxEntries } }
            : ds \in DepartmentLists }

\* Paths a caller may hand to load_dataset directly.
Paths == { <<dp, fn>> : dp \in Departments, fn \in FileNames }

(* ------------------------------- state -------------------------------- *)
VARIABLES
    fs_root_exists,  \* whether raw_folder exists
    fs_tree,         \* the directory tree below raw_folder
    pc,              \* position of the running entry point
    batch_id,        \* ingestion: batch_id (0 before it is drawn)
    ingest_ts,       \* ingestion: ingest_ts
    next_uuid,       \* the next value uuid.uuid4() returns
    clock,           \* time units slept so far
    sources,         \* ingestion: the mapping identify_sources returned
    d, f,            \* raw_loading_zone: position of the two for loops
    successful,      \* raw_loading_zone: successful
    failed,          \* raw_loading_zone: failed
    validation_log,  \* the module-level list validation_log
    ld,              \* load_dataset: "idle", "running", "returned", "raised"
    ld_path,         \* load_dataset: path, as <<department, filename>>
    ld_max,          \* load_dataset: max_retries
    attempt,         \* load_dataset: attempt
    df,              \* the table load_dataset returned
    call_attempts,   \* dispatch attempts made by the current load_dataset call
    call_sleeps,     \* the time.sleep arguments of the current load_dataset call
    call_log0,       \* length of validation_log when load_dataset was called
    val,             \* the last first_validation call: arguments, events, result
    outputs,         \* the Bronze folder: output name -> table stored there
    writes,          \* the to_parquet calls that succeeded, in order
    processed,       \* the files the loop body was entered for, in order
    log_file,        \* the validation log artifact (None-like <<>> / written)
    summary,         \* the printed validation summary
    past,            \* the calls of ingestion that returned earlier in this process
    content,         \* the text of the file a delimited-text reader is given
    run_attempts     \* dispatch attempts made since ingestion was called

vars == << fs_root_exists, fs_tree, pc, batch_id, ingest_ts, next_uuid, clock,
           sources, d, f, successful, failed, validation_log, ld, ld_path, ld_max,
           attempt, df, call_attempts, call_sleeps, call_log0, val, outputs, writes,
           processed, log_file, summary, past, content, run_attempts >>

fsVars == << fs_root_exists, fs_tree >>
runVars == << batch_id, ingest_ts, next_uuid >>
loopVars == << sources, d, f, processed >>
countVars == << successful, failed >>
loadVars == << ld, ld_path, ld_max, attempt, df, call_attempts, call_sleeps, call_log0 >>
outVars == << outputs, writes >>
flushVars == << log_file, summary >>
envVars == << past, content >>
attemptVars == << run_attempts >>

(* ----------------------------- functions ------------------------------ *)
\* log_validation: the record appended to validation_log.  details holds the
\* numbers the detail text is formatted from.
log_validation(stage, file, issue_type, details, severity) ==
    [stage |-> stage, file |-> file, issue_type |-> issue_type,
     details |-> details, severity |-> severity]

\* identify_sources on an existing root: one key per directory entry of the
\* root, one descriptor per regular file directly inside it.
identify_sources(tree) ==
    LET IsDir(e) == e.isdir
        IsFile(e) == e.isfile
        Describe(dept, files) ==
            [i \in 1..Len(files) |->
                [filename |-> files[i].name,
                 path |-> <<dept, files[i].name>>,
                 format |-> ExtOf(files[i].name)]]
        dirs == SelectSeq(tree, IsDir)
    IN  [i \in 1..Len(dirs) |->
            [department |-> dirs[i].name,
             files |-> Describe(dirs[i].name, SelectSeq(dirs[i].files, IsFile))]]

\* load_dataset: whether the extension of path is one of the dispatch branches.
IsSupported(path) == ExtOf(path[2]) \in SupportedExts

\* The retry test giving up one attempt early.
ShouldRetry_GivesUpEarly(att, max_retries) == att < max_retries - 2

\* load_dataset: the test that sends a failed attempt to the retry branch.
ShouldRetry(att, max_retries) == att < max_retries - 1

\* A linear backoff in place of the exponential one.
wait_time_Linear(att) == 2 * att

\* load_dataset: wait_time = 2 ** attempt.
wait_time(att) == 2 ^ att

\* An emptiness test that looks at the columns only.
IsEmpty_ColumnsOnly(t) == Len(t.cols) = 0

\* DataFrame.empty: no rows or no columns.
IsEmpty(t) == t.rows = 0 \/ Len(t.cols) = 0

\* first_validation with the NO_COLUMNS check logging but not returning False.
first_validation_ColumnsNotFatal(t, file, stat) ==
    LET Ev(issue, sev) == log_validation("FIRST_VALIDATION", file, issue, <<>>, sev)
    IN  IF ~stat.exists
        THEN [events |-> << Ev("FILE_NOT_FOUND", "ERROR") >>, result |-> FALSE]
        ELSE IF stat.size < MinFileSize
        THEN [events |-> << Ev("EMPTY_FILE", "ERROR") >>, result |-> FALSE]
        ELSE IF t.isnone
        THEN [events |-> << Ev("NULL_DATAFRAME", "ERROR") >>, result |-> FALSE]
        ELSE [events |->
                 (IF IsEmpty(t) THEN << Ev("EMPTY_DATAFRAME", "WARNING") >> ELSE <<>>)
                 \o (IF Len(t.cols) = 0 THEN << Ev("NO_COLUMNS", "ERROR") >> ELSE <<>>),
              result |-> TRUE]

\* first_validation without the early returns: every failing check logs.
first_validation_NoShortCircuit(t, file, stat) ==
    LET Ev(issue, sev) == log_validation("FIRST_VALIDATION", file, issue, <<>>, sev)
        e1 == IF ~stat.exists THEN << Ev("FILE_NOT_FOUND", "ERROR") >> ELSE <<>>
        e2 == IF stat.size < MinFileSize THEN << Ev("EMPTY_FILE", "ERROR") >> ELSE <<>>
        e3 == IF t.isnone THEN << Ev("NULL_DATAFRAME", "ERROR") >> ELSE <<>>
        e4 == IF ~t.isnone /\ IsEmpty(t)
              THEN << Ev("EMPTY_DATAFRAME", "WARNING") >> ELSE <<>>
        e5 == IF ~t.isnone /\ Len(t.cols) = 0
              THEN << Ev("NO_COLUMNS", "ERROR") >> ELSE <<>>
    IN  [events |-> e1 \o e2 \o e3 \o e4 \o e5,
         result |-> (e1 \o e2 \o e3 \o e5) = <<>>]

\* first_validation(df, file, file_path): the events it logs, in order, and
\* the value it returns; stat is what the file system reports for file_path.
first_validation(t, file, stat) ==
    LET Ev(issue, sev) == log_validation("FIRST_VALIDATION", file, issue, <<>>, sev)
    IN  IF ~stat.exists
        THEN [events |-> << Ev("FILE_NOT_FOUND", "ERROR") >>, result |-> FALSE]
        ELSE IF stat.size < MinFileSize
        THEN [events |-> << Ev("EMPTY_FILE", "ERROR") >>, result |-> FALSE]
        ELSE IF t.isnone
        THEN [events |-> << Ev("NULL_DATAFRAME", "ERROR") >>, result |-> FALSE]
        ELSE LET warn == IF IsEmpty(t)
                         THEN << Ev("EMPTY_DATAFRAME", "WARNING") >> ELSE <<>>
             IN  IF Len(t.cols) = 0
                 THEN [events |-> warn \o << Ev("NO_COLUMNS", "ERROR") >>,
                       result |-> FALSE]
                 ELSE [events |-> warn, result |-> TRUE]

\* df[name] = value: an existing column of that name is overwritten in
\* place, otherwise the column is appended.
SetColumn(cols, name, v) ==
    IF \E i \in 1..Len(cols) : cols[i].name = name
    THEN [i \in 1..Len(cols) |->
            IF cols[i].name = name THEN [name |-> name, val |-> v] ELSE cols[i]]
    ELSE Append(cols, [name |-> name, val |-> v])

AuditColumns == << "ingest_ts", "batch_id", "source_department", "source_filename" >>

\* raw_loading_zone, "Add audit metadata": the four assignments in order.
AddAudit(cols) ==
    SetColumn(SetColumn(SetColumn(SetColumn(cols,
        "ingest_ts", "ingest_ts"), "batch_id", "batch_id"),
        "source_department", "source_department"),
        "source_filename", "source_filename")

\* raw_loading_zone: the position of the next loop body after position
\* <<dd, ff>> of the nested for loops, <<0, 0>> when both loops are over.
RECURSIVE NextPos(_, _, _)
NextPos(src, dd, ff) ==
    IF dd > Len(src) THEN <<0, 0>>
    ELSE IF ff < Len(src[dd].files) THEN <<dd, ff + 1>>
    ELSE NextPos(src, dd + 1, 0)

\* ingestion: the counts of the validation summary.
CountSeverity(log, sev) == Cardinality({ i \in 1..Len(log) : log[i].severity = sev })

(* -------------------------------- Init -------------------------------- *)
\* No file text: the state of content outside the reader calls.
NoContent == [delim |-> ",", header |-> <<>>, rows |-> 0]

NoVal == [called |-> FALSE, t |-> None, stat |-> [exists |-> FALSE, size |-> 0],
          events |-> <<>>, result |-> FALSE]

InitCommon ==
    /\ batch_id = 0 /\ ingest_ts = 0 /\ next_uuid = 1 /\ clock = 0
    /\ sources = <<>> /\ d = 0 /\ f = 0
    /\ successful = 0 /\ failed = 0
    /\ validation_log = <<>>
    /\ attempt = 0 /\ df = None
    /\ call_attempts = 0 /\ call_sleeps = <<>> /\ call_log0 = 0
    /\ val = NoVal
    /\ outputs = <<>> /\ writes = <<>> /\ processed = <<>>
    /\ log_file = [written |-> 0, rows |-> <<>>]
    /\ summary = [printed |-> FALSE, errors |-> 0, warnings |-> 0]
    /\ past = <<>>
    /\ run_attempts = 0

\* The script is started: ingestion(raw_folder, bronze_folder) is about to run.
InitIngestion ==
    /\ fs_root_exists \in BOOLEAN
    /\ fs_tree \in (IF fs_root_exists THEN Trees ELSE { <<>> })
    /\ pc = "start"
    /\ ld = "idle" /\ ld_path = << <<>>, <<>> >> /\ ld_max = 0
    /\ content = NoContent
    /\ InitCommon

\* A caller runs load_dataset(path, max_retries) and first_validation on its
\* result, the way lines 175-178 do, with a max_retries of its own.
InitDirect ==
    /\ fs_root_exists = TRUE /\ fs_tree = <<>>
    /\ pc = "direct"
    /\ ld = "running" /\ ld_path \in Paths /\ ld_max \in 0..MaxRetriesArg
    /\ content = NoContent
    /\ InitCommon

Init == InitIngestion \/ InitDirect

(* ------------------------------ ingestion ----------------------------- *)
\* ingestion, lines 208-209: the batch id and the ingest timestamp are drawn.
IngestionStart ==
    /\ pc = "start"
    /\ batch_id' = next_uuid
    /\ next_uuid' = next_uuid + 1
    /\ ingest_ts' = clock
    /\ pc' = "identify"
    /\ UNCHANGED << fsVars, envVars, attemptVars, clock, loopVars, countVars, validation_log, loadVars,
                    val, outVars, flushVars >>

\* identify_sources on an existing root.
IdentifySources ==
    /\ pc = "identify"
    /\ fs_root_exists
    /\ sources' = identify_sources(fs_tree)
    /\ pc' = "loading"
    /\ UNCHANGED << fsVars, envVars, attemptVars, runVars, clock, d, f, processed, countVars,
                    validation_log, loadVars, val, outVars, flushVars >>

\* identify_sources on a missing root: os.listdir raises FileNotFoundError,
\* which neither identify_sources nor ingestion catches.
IdentifySourcesRaises ==
    /\ pc = "identify"
    /\ ~fs_root_exists
    /\ pc' = "crashed"
    /\ UNCHANGED << fsVars, envVars, attemptVars, runVars, clock, loopVars, countVars, validation_log,
                    loadVars, val, outVars, flushVars >>

\* raw_loading_zone up to the first loop: the counters are set to zero.
RawLoadingZoneStart ==
    /\ pc = "loading"
    /\ successful' = 0 /\ failed' = 0
    /\ d' = 1 /\ f' = 0
    /\ pc' = "next"
    /\ UNCHANGED << fsVars, envVars, attemptVars, runVars, clock, sources, processed, validation_log,
                    loadVars, val, outVars, flushVars >>

\* The file the loop body is running for.
Current == sources[d].files[f]

\* The loops yield the next file; the body starts and calls
\* load_dataset(file_path, max_retries=3).
BeginFile ==
    /\ pc = "next"
    /\ NextPos(sources, d, f) # <<0, 0>>
    /\ LET pos == NextPos(sources, d, f)
           info == sources[pos[1]].files[pos[2]]
       IN  /\ d' = pos[1] /\ f' = pos[2]
           /\ processed' = Append(processed,
                  [department |-> sources[pos[1]].department,
                   filename |-> info.filename,
                   log0 |-> Len(validation_log)])
           /\ ld_path' = info.path
    /\ ld' = "running" /\ ld_max' = PipelineMaxRetries
    /\ attempt' = 0 /\ df' = None
    /\ call_attempts' = 0 /\ call_sleeps' = <<>>
    /\ call_log0' = Len(validation_log)
    /\ val' = NoVal
    /\ pc' = "extract"
    /\ UNCHANGED << fsVars, envVars, attemptVars, runVars, clock, sources, countVars, validation_log,
                    outVars, flushVars >>

\* Both loops are over: the totals are printed and raw_loading_zone returns.
LoopEnd ==
    /\ pc = "next"
    /\ NextPos(sources, d, f) = <<0, 0>>
    /\ pc' = "flush"
    /\ UNCHANGED << fsVars, envVars, attemptVars, runVars, clock, loopVars, countVars, validation_log,
                    loadVars, val, outVars, flushVars >>

(* ----------------------------- load_dataset --------------------------- *)
\* An attempt whose reader returns a table: load_dataset returns it.
DecodeOk ==
    /\ ld = "running"
    /\ attempt < ld_max
    /\ IsSupported(ld_path)
    /\ \E t \in DecodeResults(ExtOf(ld_path[2])) : df' = t
    /\ call_attempts' = call_attempts + 1
    /\ run_attempts' = run_attempts + 1
    /\ ld' = "returned"
    /\ UNCHANGED << fsVars, envVars, pc, runVars, clock, loopVars, countVars, validation_log,
                    ld_path, ld_max, attempt, call_sleeps, call_log0, val, outVars,
                    flushVars >>

\* An attempt that raises (the reader fails, or the else branch raises
\* ValueError) with attempts left: RETRY_EXTRACT is logged, the call sleeps
\* wait_time and the loop goes on.
DecodeFailRetry ==
    /\ ld = "running"
    /\ attempt < ld_max
    /\ ShouldRetry(attempt, ld_max)
    /\ validation_log' = Append(validation_log,
           log_validation("EXTRACT", ld_path[2], "RETRY_EXTRACT",
                          << attempt + 1, ld_max, wait_time(attempt) >>, "WARNING"))
    /\ call_sleeps' = Append(call_sleeps, wait_time(attempt))
    /\ clock' = clock + wait_time(attempt)
    /\ call_attempts' = call_attempts + 1
    /\ run_attempts' = run_attempts + 1
    /\ attempt' = attempt + 1
    /\ UNCHANGED << fsVars, envVars, pc, runVars, loopVars, countVars, ld, ld_path, ld_max,
                    df, call_log0, val, outVars, flushVars >>

\* An attempt that raises with no attempt left: EXTRACTION_FAILED is logged
\* and the exception is raised again.
DecodeFailExhausted ==
    /\ ld = "running"
    /\ attempt < ld_max
    /\ ~ShouldRetry(attempt, ld_max)
    /\ validation_log' = Append(validation_log,
           log_validation("EXTRACT", ld_path[2], "EXTRACTION_FAILED",
                          << ld_max >>, "ERROR"))
    /\ call_attempts' = call_attempts + 1
    /\ run_attempts' = run_attempts + 1
    /\ ld' = "raised"
    /\ UNCHANGED << fsVars, envVars, pc, runVars, clock, loopVars, countVars, ld_path,
                    ld_max, attempt, df, call_sleeps, call_log0, val, outVars,
                    flushVars >>

\* range(max_retries) is exhausted without a return or a raise: the function
\* falls off its end and returns None.
LoadFallsThrough ==
    /\ ld = "running"
    /\ ~(attempt < ld_max)
    /\ df' = None
    /\ ld' = "returned"
    /\ UNCHANGED << fsVars, envVars, attemptVars, pc, runVars, clock, loopVars, countVars, validation_log,
                    ld_path, ld_max, attempt, call_attempts, call_sleeps, call_log0,
                    val, outVars, flushVars >>

(* --------------------------- raw_loading_zone -------------------------- *)
\* first_validation(df, file, file_path) on the table load_dataset returned.
\* The file's state is read at this moment, whatever it was during the decode.
FirstValidation ==
    /\ pc \in {"extract", "direct"}
    /\ ld = "returned"
    /\ \E stat \in FileStats :
         LET r == first_validation(df, ld_path[2], stat)
         IN  /\ validation_log' = validation_log \o r.events
             /\ val' = [called |-> TRUE, t |-> df, stat |-> stat,
                        events |-> r.events, result |-> r.result]
             /\ pc' = IF pc = "direct" THEN "direct_done"
                      ELSE IF r.result THEN "passed" ELSE "rejected"
    /\ ld' = "idle"
    /\ UNCHANGED << fsVars, envVars, attemptVars, runVars, clock, loopVars, countVars, ld_path, ld_max,
                    attempt, df, call_attempts, call_sleeps, call_log0, outVars,
                    flushVars >>

\* Lines 179-180: the validation failed; failed += 1 and continue.
ValidationFailed ==
    /\ pc = "rejected"
    /\ failed' = failed + 1
    /\ pc' = "next"
    /\ UNCHANGED << fsVars, envVars, attemptVars, runVars, clock, loopVars, successful, validation_log,
                    loadVars, val, outVars, flushVars >>

\* The audit values drawn anew for each file instead of taken from the run.
Augmented_FreshBatch ==
    [rows |-> df.rows, cols |-> AddAudit(df.cols),
     batch_id |-> next_uuid + Len(processed), ingest_ts |-> clock,
     source_department |-> sources[d].department,
     source_filename |-> Current.filename]

\* The table to_parquet is given: df with the four audit columns set.
Augmented ==
    [rows |-> df.rows, cols |-> AddAudit(df.cols),
     batch_id |-> batch_id, ingest_ts |-> ingest_ts,
     source_department |-> sources[d].department,
     source_filename |-> Current.filename]

\* The output name made to depend on the batch.
SaveToBronze_BatchInName ==
    /\ pc = "passed"
    /\ LET output_name ==
               standardize_filename(Current.filename, sources[d].department)
               \o << "_", batch_id >>
       IN  /\ outputs' = [n \in DOMAIN outputs \cup {output_name} |->
                             IF n = output_name THEN Augmented ELSE outputs[n]]
           /\ writes' = Append(writes,
                  [name |-> output_name, iter |-> Len(processed),
                   format |-> Current.format, src |-> df, stored |-> Augmented])
    /\ successful' = successful + 1
    /\ pc' = "next"
    /\ UNCHANGED << fsVars, envVars, attemptVars, runVars, clock, loopVars, failed,
                    validation_log, loadVars, val, flushVars >>

\* Lines 183-194: audit columns, output name, to_parquet succeeds (any file
\* already at the output path is replaced), successful += 1.
SaveToBronze ==
    /\ pc = "passed"
    /\ LET output_name == standardize_filename(Current.filename, sources[d].department)
       IN  /\ outputs' = [n \in DOMAIN outputs \cup {output_name} |->
                             IF n = output_name THEN Augmented ELSE outputs[n]]
           /\ writes' = Append(writes,
                  [name |-> output_name, iter |-> Len(processed),
                   format |-> Current.format, src |-> df, stored |-> Augmented])
    /\ successful' = successful + 1
    /\ pc' = "next"
    /\ UNCHANGED << fsVars, envVars, attemptVars, runVars, clock, loopVars, failed, validation_log,
                    loadVars, val, flushVars >>

\* Lines 183-191 with to_parquet raising: control goes to the except clause.
SaveToBronzeRaises ==
    /\ pc = "passed"
    /\ pc' = "save_raised"
    /\ UNCHANGED << fsVars, envVars, attemptVars, runVars, clock, loopVars, countVars, validation_log,
                    loadVars, val, outVars, flushVars >>

\* Line 197, in the except clause of the loop body: failed += 1.
ExceptCount ==
    /\ \/ pc = "extract" /\ ld = "raised"
       \/ pc = "save_raised"
    /\ failed' = failed + 1
    /\ ld' = "idle"
    /\ pc' = "except_log"
    /\ UNCHANGED << fsVars, envVars, attemptVars, runVars, clock, loopVars, successful, validation_log,
                    ld_path, ld_max, attempt, df, call_attempts, call_sleeps,
                    call_log0, val, outVars, flushVars >>

\* The except clause placed outside the loops: an exception ends the batch.
ExceptLog_EndsBatch ==
    /\ pc = "except_log"
    /\ validation_log' = Append(validation_log,
           log_validation("RAW_LOADING", Current.filename, "PROCESSING_ERROR",
                          <<>>, "ERROR"))
    /\ pc' = "flush"
    /\ UNCHANGED << fsVars, envVars, attemptVars, runVars, clock, loopVars, countVars, loadVars, val,
                    outVars, flushVars >>

\* Lines 198-199: PROCESSING_ERROR is logged and the loop goes on.
ExceptLog ==
    /\ pc = "except_log"
    /\ validation_log' = Append(validation_log,
           log_validation("RAW_LOADING", Current.filename, "PROCESSING_ERROR",
                          <<>>, "ERROR"))
    /\ pc' = "next"
    /\ UNCHANGED << fsVars, envVars, attemptVars, runVars, clock, loopVars, countVars, loadVars, val,
                    outVars, flushVars >>

\* The flush without its guard: the artifact is written whatever the log holds.
SaveValidationLog_Always ==
    /\ pc = "flush"
    /\ log_file' = [written |-> log_file.written + 1, rows |-> validation_log]
    /\ summary' = [printed |-> TRUE,
                   errors |-> CountSeverity(validation_log, "ERROR"),
                   warnings |-> CountSeverity(validation_log, "WARNING")]
    /\ pc' = "done"
    /\ UNCHANGED << fsVars, envVars, attemptVars, runVars, clock, loopVars, countVars,
                    validation_log, loadVars, val, outVars >>

\* ingestion, lines 224-232: a non-empty validation_log is written to the log
\* artifact and summarised; ingestion returns.
SaveValidationLog ==
    /\ pc = "flush"
    /\ IF validation_log # <<>>
       THEN /\ log_file' = [written |-> log_file.written + 1, rows |-> validation_log]
            /\ summary' = [printed |-> TRUE,
                           errors |-> CountSeverity(validation_log, "ERROR"),
                           warnings |-> CountSeverity(validation_log, "WARNING")]
       ELSE UNCHANGED flushVars
    /\ pc' = "done"
    /\ UNCHANGED << fsVars, envVars, attemptVars, runVars, clock, loopVars, countVars, validation_log,
                    loadVars, val, outVars >>

Next ==
    \/ IngestionStart
    \/ IdentifySources
    \/ IdentifySourcesRaises
    \/ RawLoadingZoneStart
    \/ BeginFile
    \/ LoopEnd
    \/ DecodeOk
    \/ DecodeFailRetry
    \/ DecodeFailExhausted
    \/ LoadFallsThrough
    \/ FirstValidation
    \/ ValidationFailed
    \/ SaveToBronze
    \/ SaveToBronzeRaises
    \/ ExceptCount
    \/ ExceptLog
    \/ SaveValidationLog

Spec == Init /\ [][Next]_vars

(* ----------------- ingestion called again in one process -------------- *)
\* validation_log index at which the current call of ingestion started.
RunLogStart == IF past = <<>> THEN 0 ELSE past[Len(past)].log_end

\* ingestion has returned and is called again with the same arguments: its
\* locals start afresh; the module-level validation_log, the Bronze folder
\* and the log artifact stay as the earlier call left them.
IngestionAgain ==
    /\ pc = "done"
    /\ Len(past) < MaxRuns - 1
    /\ past' = Append(past,
           [batch_id |-> batch_id, ingest_ts |-> ingest_ts,
            processed |-> processed, writes |-> writes,
            successful |-> successful, failed |-> failed,
            log_start |-> RunLogStart, log_end |-> Len(validation_log),
            log_file |-> log_file, summary |-> summary])
    /\ batch_id' = 0 /\ ingest_ts' = 0
    /\ sources' = <<>> /\ d' = 0 /\ f' = 0 /\ processed' = <<>>
    /\ writes' = <<>>
    /\ val' = NoVal
    /\ run_attempts' = 0
    /\ pc' = "start"
    /\ UNCHANGED << fsVars, content, next_uuid, clock, countVars, validation_log,
                    loadVars, outputs, flushVars >>

\* The script's entry point over a tree of at most MaxRunEntries entries.
InitRuns ==
    \/ InitIngestion /\ SumLen(fs_tree) <= MaxRunEntries
    \/ InitDirect

NextRuns == Next \/ IngestionAgain

SpecRuns == InitRuns /\ [][NextRuns]_vars

(* ------------------------ delimited-text readers ---------------------- *)
Tab == "\t"
Comma == ","

\* Whether sub occurs in s (the Python test  sub in s).
Contains(s, sub) ==
    \E i \in 1..(Len(s) - Len(sub) + 1) : SubSeq(s, i, i + Len(sub) - 1) = sub

Campaign == <<"c","a","m","p","a","i","g","n">>

\* ingest_to_bronze.load_dataset, csv branch: pd.read_csv(path, low_memory=False),
\* that is, the default delimiter whatever the path.
csv_sep(path) == Comma

\* modded_bronzeval.load_dataset, csv branch: sep='\t' when the lower-cased
\* basename contains "campaign", the default delimiter otherwise.
modded_csv_sep(path) ==
    IF Contains(Lower(path[2]), Campaign) THEN Tab ELSE Comma

\* The name of the single column a header line yields when it is split on a
\* delimiter it does not contain.
UnsplitHeader == "unsplit header line"

\* pd.read_csv(text, sep): the header line split on sep gives the columns; a
\* header of several cells written with another delimiter stays one cell.
read_csv(text, sep) ==
    IF sep = text.delim \/ Len(text.header) = 1
    THEN Frame(text.rows, text.header)
    ELSE Frame(text.rows, << UnsplitHeader >>)

\* The texts of the delimited files read: a header of one or two cells
\* written with commas or tabs, and up to MaxRows data lines.
Contents ==
    [delim : {Comma, Tab}, header : { c \in ColumnLists : Len(c) >= 1 },
     rows : 0..MaxRows]

\* Names of delimited files, with and without the marker token.
CsvNames ==
    { <<"a",".","c","s","v">>, <<"A"," ","-","b",".","C","S","V">>,
      <<"c","a","m","p","a","i","g","n",".","c","s","v">>,
      <<"x","_","C","a","m","p","a","i","g","n","_","1",".","c","s","v">> }

\* A delimited file is about to be read by the csv branch of load_dataset.
InitRead ==
    /\ fs_root_exists = TRUE /\ fs_tree = <<>>
    /\ pc = "read_csv"
    /\ ld = "running" /\ ld_max = PipelineMaxRetries
    /\ ld_path \in { <<dp, fn>> : dp \in Departments, fn \in CsvNames }
    /\ content \in Contents
    /\ InitCommon

\* ingest_to_bronze.load_dataset line 78 returns the frame read.
ReadCsv ==
    /\ pc = "read_csv"
    /\ df' = read_csv(content, csv_sep(ld_path))
    /\ ld' = "returned"
    /\ pc' = "parsed"
    /\ UNCHANGED << fsVars, envVars, attemptVars, runVars, clock, loopVars, countVars,
                    validation_log, ld_path, ld_max, attempt, call_attempts,
                    call_sleeps, call_log0, val, outVars, flushVars >>

\* modded_bronzeval.load_dataset lines 74-81 returns the frame read.
ModdedReadCsv ==
    /\ pc = "read_csv"
    /\ df' = read_csv(content, modded_csv_sep(ld_path))
    /\ ld' = "returned"
    /\ pc' = "parsed_modded"
    /\ UNCHANGED << fsVars, envVars, attemptVars, runVars, clock, loopVars, countVars,
                    validation_log, ld_path, ld_max, attempt, call_attempts,
                    call_sleeps, call_log0, val, outVars, flushVars >>

NextRead == ReadCsv \/ ModdedReadCsv

SpecRead == InitRead /\ [][NextRead]_vars

(* ------------------- definitions the properties share ---------------- *)
IsPrefix(a, b) == Len(a) <= Len(b) /\ \A i \in 1..Len(a) : a[i] = b[i]

\* The descriptors of sources in iteration order: departments in mapping
\* order, the files of a department in list order.
RECURSIVE Flatten(_)
Flatten(src) ==
    IF src = <<>> THEN <<>>
    ELSE [i \in 1..Len(Head(src).files) |->
             [department |-> Head(src).department,
              filename |-> Head(src).files[i].filename]]
         \o Flatten(Tail(src))

Discovered == Flatten(sources)

ProcessedFiles ==
    [i \in 1..Len(processed) |->
        [department |-> processed[i].department, filename |-> processed[i].filename]]

\* The events logged during the i-th loop body.
IterEvents(i) ==
    SubSeq(validation_log, processed[i].log0 + 1,
           IF i < Len(processed) THEN processed[i + 1].log0 ELSE Len(validation_log))

IsError(e) == e.severity = "ERROR"

IterErrors(i) == SelectSeq(IterEvents(i), IsError)

\* The events logged by the current (or last) load_dataset call.
CallEvents == SubSeq(validation_log, call_log0 + 1, Len(validation_log))

IsRetry(e) == e.issue_type = "RETRY_EXTRACT"

RetryEvent(i) ==
    log_validation("EXTRACT", ld_path[2], "RETRY_EXTRACT",
                   << i, ld_max, 2 ^ (i - 1) >>, "WARNING")

FailedEvent ==
    log_validation("EXTRACT", ld_path[2], "EXTRACTION_FAILED", << ld_max >>, "ERROR")

BetweenFiles == pc \in {"next", "flush", "done"}

(* -------------------------------- C1 ---------------------------------- *)
\* C1: a failing file never stops the batch.  The loop bodies entered so far
\* are a prefix of the discovered files in discovery order, between two
\* bodies every entered file has been counted once, and when the loops are
\* over every discovered file has been entered and successful + failed is the
\* number of discovered files.
C1_FailureIsolation ==
    pc \in {"next", "extract", "passed", "rejected", "save_raised", "except_log",
            "flush", "done"} =>
        /\ IsPrefix(ProcessedFiles, Discovered)
        /\ pc = "next" => successful + failed = Len(processed)
        /\ pc \in {"flush", "done"} =>
              /\ ProcessedFiles = Discovered
              /\ successful + failed = Len(Discovered)

\* A finished run over two departments whose first file failed in extraction
\* and whose second file was written.
C1_Witness ==
    /\ pc = "done"
    /\ Len(sources) = 2 /\ Len(processed) = 2
    /\ \E i \in 1..Len(IterErrors(1)) : IterErrors(1)[i].issue_type = "EXTRACTION_FAILED"
    /\ successful = 1 /\ failed = 1

(* -------------------------------- C2 ---------------------------------- *)
\* C2: an output is written only in a loop body in which first_validation
\* was called on the table just extracted and returned True, that table
\* having at least one column and its file being present and large enough;
\* no output is written by a body whose validation logged an ERROR.
C2_ValidationGate ==
    /\ [][ (writes' # writes \/ outputs' # outputs) =>
              /\ val.called /\ val.result /\ val.t = df
              /\ ~df.isnone /\ Len(df.cols) >= 1
              /\ val.stat.exists /\ val.stat.size >= MinFileSize ]_vars
    /\ [](\A i \in 1..Len(writes) :
            \A j \in 1..Len(IterErrors(writes[i].iter)) :
               IterErrors(writes[i].iter)[j].stage # "FIRST_VALIDATION")

\* One file was written, and the next one, extracted to a table without
\* columns, failed validation with NO_COLUMNS and left no output.
C2_Witness ==
    /\ pc = "next"
    /\ Len(processed) = 2 /\ Len(writes) = 1 /\ writes[1].iter = 1
    /\ val.called /\ ~val.result /\ ~val.t.isnone /\ Len(val.t.cols) = 0
    /\ val.events[Len(val.events)].issue_type = "NO_COLUMNS"
    /\ Cardinality(DOMAIN outputs) = 1

(* -------------------------------- C3 ---------------------------------- *)
\* C3: a call of load_dataset on a path of unsupported extension logs no
\* RETRY_EXTRACT event, never sleeps, makes at most one dispatch attempt, and
\* has made exactly one when it raises.
C3_UnsupportedNotRetried ==
    (ld # "idle" /\ ~IsSupported(ld_path)) =>
        /\ SelectSeq(CallEvents, IsRetry) = <<>>
        /\ call_sleeps = <<>>
        /\ call_attempts <= 1
        /\ ld = "raised" => call_attempts = 1

(* -------------------------------- C4 ---------------------------------- *)
\* C4: when load_dataset(path, n) returns a table after k failed attempts
\* (k + 1 attempts in all), then k < n, the call logged exactly the k events
\* RETRY_EXTRACT WARNING numbered 1..k and no EXTRACTION_FAILED, and it slept
\* 2^0, ..., 2^(k-1).
C4_RetryThenSuccess ==
    (ld = "returned" /\ ~df.isnone) =>
        LET k == call_attempts - 1
        IN  /\ 0 <= k /\ k < ld_max
            /\ Len(CallEvents) = k
            /\ \A i \in 1..k : CallEvents[i] = RetryEvent(i)
            /\ Len(call_sleeps) = k
            /\ \A i \in 1..k : call_sleeps[i] = 2 ^ (i - 1)

\* load_dataset(path, 3) has returned a table on its third attempt.
C4_Witness ==
    /\ ld = "returned" /\ ~df.isnone
    /\ ld_max = 3 /\ call_attempts = 3
    /\ Len(SelectSeq(CallEvents, IsRetry)) = 2

(* -------------------------------- C5 ---------------------------------- *)
\* C5: a call load_dataset(path, n), n >= 1, that ends without a table ends
\* by raising, after exactly n attempts, n - 1 sleeps 2^0, ..., 2^(n-2) and
\* the events RETRY_EXTRACT 1..n-1 followed by one EXTRACTION_FAILED ERROR;
\* in raw_loading_zone the file is then counted failed and the loops go on:
\* between two loop bodies failed is the number of bodies that logged an
\* ERROR, and at the end every discovered file has been entered.
C5_RetryExhaustion ==
    /\ (ld \in {"returned", "raised"} /\ df.isnone /\ ld_max >= 1) =>
          /\ ld = "raised"
          /\ call_attempts = ld_max
          /\ Len(call_sleeps) = ld_max - 1
          /\ \A i \in 1..(ld_max - 1) : call_sleeps[i] = 2 ^ (i - 1)
          /\ Len(CallEvents) = ld_max
          /\ \A i \in 1..(ld_max - 1) : CallEvents[i] = RetryEvent(i)
          /\ CallEvents[ld_max] = FailedEvent
    /\ (pc = "extract" /\ ld = "raised") => failed + successful = Len(processed) - 1
    /\ BetweenFiles =>
          failed = Cardinality({ i \in 1..Len(processed) : IterErrors(i) # <<>> })
    /\ pc \in {"flush", "done"} => Len(processed) = Len(Discovered)

\* The first of two files exhausted its three attempts and was counted
\* failed; the loop has gone on to the second file.
C5_Witness ==
    /\ pc = "extract" /\ Len(processed) = 2
    /\ failed = 1
    /\ Len(IterEvents(1)) >= 3
    /\ IterEvents(1)[3].issue_type = "EXTRACTION_FAILED"
    /\ IterEvents(1)[1].issue_type = "RETRY_EXTRACT"
    /\ IterEvents(1)[2].issue_type = "RETRY_EXTRACT"

(* -------------------------------- C6 ---------------------------------- *)
\* The first failing fatal check of the validator, in the order existence,
\* size, null table, columns; "NONE" when no fatal check fails.
FirstFatal(t, stat) ==
    CASE ~stat.exists -> "FILE_NOT_FOUND"
      [] stat.exists /\ stat.size < MinFileSize -> "EMPTY_FILE"
      [] stat.exists /\ stat.size >= MinFileSize /\ t.isnone -> "NULL_DATAFRAME"
      [] stat.exists /\ stat.size >= MinFileSize /\ ~t.isnone /\ Len(t.cols) = 0
            -> "NO_COLUMNS"
      [] OTHER -> "NONE"

\* C6: a call of first_validation logs at most one ERROR event, that of the
\* first failing check in the order FILE_NOT_FOUND, EMPTY_FILE, null table,
\* NO_COLUMNS; nothing is logged after an ERROR; and it returns False exactly
\* when it logged an ERROR.
C6_ValidatorOrder ==
    val.called =>
        LET errs == SelectSeq(val.events, IsError)
        IN  /\ Len(errs) <= 1
            /\ val.result = (errs = <<>>)
            /\ errs # <<>> =>
                  /\ val.events[Len(val.events)] = errs[1]
                  /\ errs[1].issue_type = FirstFatal(val.t, val.stat)
            /\ errs = <<>> => FirstFatal(val.t, val.stat) = "NONE"

\* first_validation was called on a null table for a file below the size
\* threshold: two fatal checks fail, the earlier one is reported.
C6_Witness ==
    /\ val.called
    /\ val.t.isnone /\ val.stat.exists /\ val.stat.size < MinFileSize
    /\ Len(val.events) = 1 /\ val.events[1].issue_type = "EMPTY_FILE"
    /\ ~val.result

(* -------------------------------- C7 ---------------------------------- *)
\* C7: a loop body that logged PROCESSING_ERROR logged no other ERROR event.
C7_NoDuplicateError ==
    \A i \in 1..Len(processed) :
        (\E j \in 1..Len(IterErrors(i)) :
            IterErrors(i)[j].issue_type = "PROCESSING_ERROR")
        => Len(IterErrors(i)) = 1

(* -------------------------------- C8 ---------------------------------- *)
\* C8: with the source root missing, discovery does not raise, it returns an
\* empty mapping and logs SOURCE_ROOT_NOT_FOUND, and the run completes with
\* nothing succeeded and nothing failed.
C8_MissingRoot ==
    ~fs_root_exists =>
        /\ pc # "crashed"
        /\ pc \notin {"start", "identify"} =>
              /\ sources = <<>>
              /\ \E i \in 1..Len(validation_log) :
                    validation_log[i].issue_type = "SOURCE_ROOT_NOT_FOUND"
        /\ pc = "done" => successful = 0 /\ failed = 0

(* -------------------------------- C9 ---------------------------------- *)
\* C9: at the end of a run any two distinct discovered files have distinct
\* output names, no two writes of the run went to the same name, and the
\* Bronze folder holds as many files as were counted successful.
C9_NoCollision ==
    pc = "done" =>
        /\ \A i, j \in 1..Len(Discovered) :
              i # j =>
                 standardize_filename(Discovered[i].filename, Discovered[i].department)
                 # standardize_filename(Discovered[j].filename, Discovered[j].department)
        /\ \A i, j \in 1..Len(writes) : i # j => writes[i].name # writes[j].name
        /\ Cardinality(DOMAIN outputs) = successful

(* -------------------------------- C10 --------------------------------- *)
\* C10, for the files that reach the writer: the table written for a
\* delimited-text file has the source's row count and its columns are the
\* source's columns, unchanged, followed by the four audit columns.
C10_Preservation ==
    \A i \in 1..Len(writes) :
        writes[i].format = Csv =>
            /\ writes[i].stored.rows = writes[i].src.rows
            /\ Len(writes[i].stored.cols) = Len(writes[i].src.cols) + 4
            /\ writes[i].stored.cols =
                  writes[i].src.cols \o
                  [k \in 1..4 |-> [name |-> AuditColumns[k], val |-> AuditColumns[k]]]

(* -------------------------------- C11 --------------------------------- *)
\* C11: the batch id and the ingest timestamp are drawn once, before any loop
\* body is entered, and never change afterwards; every table written carries
\* them, together with the department and the filename of the file of its
\* own loop body, and each has the four audit columns.
C11_SharedBatchContext ==
    /\ [][ pc # "start" => (batch_id' = batch_id /\ ingest_ts' = ingest_ts) ]_vars
    /\ [](pc = "start" => (batch_id = 0 /\ processed = <<>> /\ writes = <<>>))
    /\ [](pc \notin {"start", "direct", "direct_done"} => batch_id # 0)
    /\ [](\A i \in 1..Len(writes) :
            LET w == writes[i]
            IN  /\ w.stored.batch_id = batch_id
                /\ w.stored.ingest_ts = ingest_ts
                /\ w.stored.source_department = processed[w.iter].department
                /\ w.stored.source_filename = processed[w.iter].filename
                /\ \A k \in 1..4 :
                      \E c \in 1..Len(w.stored.cols) :
                         w.stored.cols[c] =
                            [name |-> AuditColumns[k], val |-> AuditColumns[k]])

\* A finished run that wrote two files of two departments, the second after
\* a retry had advanced the clock.
C11_Witness ==
    /\ pc = "done"
    /\ Len(writes) = 2
    /\ writes[1].stored.source_department # writes[2].stored.source_department
    /\ clock > ingest_ts

(* -------------------------------- C12 --------------------------------- *)
\* C12: in every state of a run the failure counter counts only files that
\* already have an ERROR event in validation_log: failed never exceeds the
\* number of loop bodies that have logged an ERROR.
C12_RecordBeforeSkip ==
    pc \in {"next", "extract", "passed", "rejected", "save_raised", "except_log",
            "flush", "done"} =>
        failed <= Cardinality({ i \in 1..Len(processed) : IterErrors(i) # <<>> })

(* -------------------------------- C13 --------------------------------- *)
\* The last first_validation call was on a present file of at least
\* MinFileSize bytes and a table of no rows and at least one column.
ZeroRowCase ==
    /\ val.called
    /\ val.stat.exists /\ val.stat.size >= MinFileSize
    /\ ~val.t.isnone /\ val.t.rows = 0 /\ Len(val.t.cols) >= 1

\* The loop body just finished wrote its table and logged no ERROR.
LastWritten ==
    /\ writes # <<>> /\ writes[Len(writes)].iter = Len(processed)
    /\ IterErrors(Len(processed)) = <<>>

\* C13 as stated: for a zero-row table with columns first_validation returns
\* True and logs exactly one event, an EMPTY_TABLE WARNING; the file is not
\* rejected, and once its loop body is over it has been written and counted
\* successful.
C13_ZeroRowsEmptyTable ==
    ZeroRowCase =>
        /\ val.result
        /\ Len(val.events) = 1
        /\ val.events[1].issue_type = "EMPTY_TABLE"
        /\ val.events[1].severity = "WARNING"
        /\ pc # "rejected"
        /\ pc = "next" => (LastWritten /\ successful = Len(writes))

\* C13 as amended: the one event is the WARNING EMPTY_DATAFRAME; the file
\* goes on to the write, and once its loop body is over it has either been
\* written and counted successful or the write raised and the body logged
\* PROCESSING_ERROR as its only ERROR.
C13_ZeroRowsWarning ==
    ZeroRowCase =>
        /\ val.result
        /\ Len(val.events) = 1
        /\ val.events[1].issue_type = "EMPTY_DATAFRAME"
        /\ val.events[1].severity = "WARNING"
        /\ pc # "rejected"
        /\ pc = "next" =>
              /\ successful = Len(writes)
              /\ \/ LastWritten
                 \/ /\ \A i \in 1..Len(writes) : writes[i].iter # Len(processed)
                    /\ Len(IterErrors(Len(processed))) = 1
                    /\ IterErrors(Len(processed))[1].issue_type = "PROCESSING_ERROR"

\* A zero-row table with a column passed validation with its warning, was
\* written and was counted successful.
C13_Witness ==
    /\ pc = "next"
    /\ ZeroRowCase
    /\ LastWritten
    /\ successful = 1
    /\ writes[1].stored.rows = 0

(* -------------------------------- C14 --------------------------------- *)
\* The files (department, filename) a run wrote, and the output names it
\* wrote them to.
WrittenFiles(ws, ps) ==
    { << ps[ws[i].iter].department, ps[ws[i].iter].filename >> : i \in 1..Len(ws) }

WrittenNames(ws) == { ws[i].name : i \in 1..Len(ws) }

\* C14: when a second call of ingestion on the unchanged tree has finished,
\* its batch_id differs from the first call's, and if both calls wrote the
\* same files they wrote them to the same set of output names.
C14_NamingIdempotence ==
    (pc = "done" /\ past # <<>>) =>
        /\ batch_id # past[1].batch_id
        /\ WrittenFiles(writes, processed)
              = WrittenFiles(past[1].writes, past[1].processed)
           => WrittenNames(writes) = WrittenNames(past[1].writes)

\* Two finished calls that each wrote the one file of the tree.
C14_Witness ==
    /\ pc = "done" /\ Len(past) = 1
    /\ Len(writes) = 1 /\ Len(past[1].writes) = 1
    /\ DOMAIN outputs = WrittenNames(writes)

SepUsed == IF pc = "parsed" THEN csv_sep(ld_path) ELSE modded_csv_sep(ld_path)

HasMarker == Contains(Lower(ld_path[2]), Campaign)

\* C16: a delimited file is read with the tab delimiter exactly when its
\* lower-cased name contains "campaign" and with the comma otherwise, so a
\* tab-delimited campaign file comes back with the columns of its tab-split
\* header.
C16_DelimiterOverride ==
    pc \in {"parsed", "parsed_modded"} =>
        /\ SepUsed = Tab <=> HasMarker
        /\ SepUsed = Comma <=> ~HasMarker
        /\ (HasMarker /\ content.delim = Tab) =>
              df = Frame(content.rows, content.header)

(* -------------------------------- C17 --------------------------------- *)
\* C17: load_dataset never returns without a table.  A call that has
\* returned holds a table, a call that has raised logged EXTRACTION_FAILED
\* last, and no NULL_DATAFRAME event is ever logged for the value of a call.
C17_NeverReturnsNone ==
    /\ ld = "returned" => ~df.isnone
    /\ ld = "raised" =>
          (CallEvents # <<>> /\ CallEvents[Len(CallEvents)] = FailedEvent)
    /\ \A i \in 1..Len(validation_log) :
          validation_log[i].issue_type # "NULL_DATAFRAME"

(* -------------------------------- C18 --------------------------------- *)
\* The events logged since the current run of ingestion began.
RunEvents == SubSeq(validation_log, RunLogStart + 1, Len(validation_log))

\* The number of writes of the log artifact made before the current run.
WritesBefore == IF past = <<>> THEN 0 ELSE past[Len(past)].log_file.written

\* C18: the artifact and the summary a run produces hold exactly the events
\* logged during that run, and the events logged by the earlier runs of the
\* process are still the first entries of validation_log, unchanged.
C18_PerRunLog ==
    /\ \A i \in 1..Len(past) :
          /\ past[i].log_end <= Len(validation_log)
          /\ past[i].log_file.written > 0 =>
                IsPrefix(past[i].log_file.rows, validation_log)
    /\ (pc = "done" /\ log_file.written > WritesBefore) =>
          /\ log_file.rows = RunEvents
          /\ summary.errors = CountSeverity(RunEvents, "ERROR")
          /\ summary.warnings = CountSeverity(RunEvents, "WARNING")

(* -------------------------------- C19 --------------------------------- *)
\* The positions of a run of ingestion, from its call to its return.
InRun == pc \notin {"direct", "direct_done", "read_csv", "parsed", "parsed_modded"}

\* The positions at which identify_sources has returned the source set.
SourcesKnown == InRun /\ pc \notin {"start", "identify", "crashed"}

\* C19: bounded work and termination.  A run is never stopped before its
\* end-of-run flush: until the flush is done it has a next step, and it never
\* ends anywhere else.  A call of load_dataset made by the run has made at
\* most 3 decode attempts and slept at most twice, 1 then 2 time units, and
\* the run has made at most 3 decode attempts per discovered file.
C19_BoundedWork ==
    InRun =>
        /\ pc # "crashed"
        /\ pc # "done" => ENABLED Next
        /\ call_attempts <= PipelineMaxRetries
        /\ IsPrefix(call_sleeps, << 1, 2 >>)
        /\ SourcesKnown => run_attempts <= PipelineMaxRetries * Len(Discovered)

====
